---- MODULE Spec2Model ----
(***************************************************************************)
(* Model of the scoring engine of src/app.py: the four calc_*_block        *)
(* functions, the severity classifiers nested in them, domain_label,       *)
(* overall_risk_label and the "Calculate" branch of main that chains them. *)
(*                                                                         *)
(* Numbers.  Python floats are modelled as exact rationals n/d (d > 0,     *)
(* lowest terms).  None is a value of its own.  An operation that raises   *)
(* in Python yields an exception value that every later operation passes   *)
(* on, so a block "raises" exactly when its result is an exception value.  *)
(* math.log / math.log10 are tabulated in thousandths for the arguments    *)
(* the input sets below can produce; math.sqrt is computed in thousandths. *)
(***************************************************************************)
EXTENDS Integers, Sequences, FiniteSets, TLC

VARIABLES p, pc, infl, oxid, endo, metab, report, probe

vars == <<p, pc, infl, oxid, endo, metab, report, probe>>

---------------------------------------------------------------------------
(* Values *)

NoneV == [tag |-> "None", n |-> 0, d |-> 1]

TypeError == [tag |-> "TypeError", n |-> 0, d |-> 1]

ZeroDivisionError == [tag |-> "ZeroDivisionError", n |-> 0, d |-> 1]

IsNone(x) == x.tag = "None"

IsErr(x) == x.tag \in {"TypeError", "ZeroDivisionError"}

Abs(a) == IF a < 0 THEN -a ELSE a

RECURSIVE GCD(_, _)
GCD(a, b) == IF b = 0 THEN a ELSE GCD(b, a % b)

\* the rational a/b (b # 0) in lowest terms with a positive denominator
Num(a, b) ==
    LET g == GCD(Abs(a), Abs(b))
        s == IF b < 0 THEN -1 ELSE 1
    IN  [tag |-> "num", n |-> s * (a \div g), d |-> s * (b \div g)]

IntV(a) == [tag |-> "num", n |-> a, d |-> 1]

\* first exception among the operands, evaluated left to right
FirstErr(a, b) == IF IsErr(a) THEN a ELSE b

\* Python a * b
PyMul(a, b) ==
    IF IsErr(a) \/ IsErr(b) THEN FirstErr(a, b)
    ELSE IF IsNone(a) \/ IsNone(b) THEN TypeError
    ELSE Num(a.n * b.n, a.d * b.d)

\* Python a / b on floats: a zero divisor raises ZeroDivisionError
PyDiv(a, b) ==
    IF IsErr(a) \/ IsErr(b) THEN FirstErr(a, b)
    ELSE IF IsNone(a) \/ IsNone(b) THEN TypeError
    ELSE IF b.n = 0 THEN ZeroDivisionError
    ELSE Num(a.n * b.d, a.d * b.n)

\* Python a + b
PyAdd(a, b) ==
    IF IsErr(a) \/ IsErr(b) THEN FirstErr(a, b)
    ELSE IF IsNone(a) \/ IsNone(b) THEN TypeError
    ELSE Num(a.n * b.d + b.n * a.d, a.d * b.d)

\* Python a - b
PySub(a, b) ==
    IF IsErr(a) \/ IsErr(b) THEN FirstErr(a, b)
    ELSE IF IsNone(a) \/ IsNone(b) THEN TypeError
    ELSE Num(a.n * b.d - b.n * a.d, a.d * b.d)

\* comparisons of a number x with the literal cn/cd (cd > 0)
Lt(x, cn, cd) == x.n * cd < cn * x.d

Le(x, cn, cd) == x.n * cd <= cn * x.d

Gt(x, cn, cd) == x.n * cd > cn * x.d

Ge(x, cn, cd) == x.n * cd >= cn * x.d

\* Python "x > 0" as a condition: "T", "F", or "E" when it raises (None > 0)
Gt0(x) == IF IsNone(x) THEN "E" ELSE IF x.n > 0 THEN "T" ELSE "F"

\* Python "a and b" on conditions: b is evaluated only when a is true
AndThen(a, b) == IF a = "T" THEN b ELSE a

\* Python truthiness of a number-or-None ("if lymph")
Truthy(x) == ~IsNone(x) /\ x.n # 0

\* safe_div(a, b)
safe_div(a, b) ==
    IF IsErr(a) \/ IsErr(b) THEN FirstErr(a, b)
    ELSE IF IsNone(b) \/ b.n = 0 THEN NoneV
    ELSE PyDiv(a, b)

\* math.log, in thousandths, for the arguments the inputs can produce
LnMilli ==
    (<<12000, 1>> :> 9393) @@ (<<6000, 1>> :> 8700) @@ (<<9000, 1>> :> 9105)
    @@ (<<4500, 1>> :> 8412) @@ (<<440, 1>> :> 6087) @@ (<<340, 1>> :> 5829)
    @@ (<<380, 1>> :> 5940) @@ (<<280, 1>> :> 5635) @@ (<<33, 1>> :> 3497)
    @@ (<<100, 1>> :> 4605) @@ (<<1, 1>> :> 0) @@ (<<1, 2>> :> -693)

math_log(x) == IF IsErr(x) THEN x ELSE Num(LnMilli[<<x.n, x.d>>], 1000)

\* math.log10, in thousandths, for the arguments the inputs can produce
Log10Milli ==
    (<<1720, 649>> :> 423) @@ (<<258, 295>> :> -58) @@ (<<5160, 59>> :> 1942)
    @@ (<<860, 649>> :> 122) @@ (<<129, 295>> :> -359) @@ (<<2580, 59>> :> 1641)
    @@ (<<10320, 59>> :> 2243)

math_log10(x) == IF IsErr(x) THEN x ELSE Num(Log10Milli[<<x.n, x.d>>], 1000)

\* floor of the square root of a natural number (Newton's iteration)
RECURSIVE ISqrtIter(_, _, _)
ISqrtIter(m, x, y) == IF y < x THEN ISqrtIter(m, y, (y + m \div y) \div 2) ELSE x

ISqrt(m) == IF m = 0 THEN 0 ELSE ISqrtIter(m, m, (m + 1) \div 2)

\* math.sqrt, in thousandths
math_sqrt(x) == IF IsErr(x) THEN x ELSE Num(ISqrt((x.n * 1000000) \div x.d), 1000)

\* round(x, 0) of the non-negative rational a/b: ties go to the even integer
RoundHalfEven(a, b) ==
    LET q == a \div b
        r == a % b
    IN  IF 2 * r < b THEN q
        ELSE IF 2 * r > b THEN q + 1
        ELSE IF q % 2 = 0 THEN q ELSE q + 1

\* sum(severities)
RECURSIVE SumSeq(_)
SumSeq(s) == IF s = <<>> THEN 0 ELSE Head(s).n + SumSeq(Tail(s))

\* [s for s in [...] if s is not None]
Present(s) == SelectSeq(s, LAMBDA v : ~IsNone(v))

\* sev = sum(severities) / len(severities) if severities else 0
AvgSeverity(sevs) ==
    IF sevs # <<>> THEN Num(SumSeq(sevs), Len(sevs)) ELSE IntV(0)

\* the score without the division by 3: 25 * sev, rounded
DomainScore_NoThird(sev) == RoundHalfEven(25 * sev.n, sev.d)

\* round(25 * (sev / 3), 0)
DomainScore(sev) == RoundHalfEven(25 * sev.n, 3 * sev.d)

---------------------------------------------------------------------------
(* Severity classifiers (0-3), one per index, as nested in the blocks *)

sev_nlr(x) ==
    IF IsNone(x) THEN NoneV
    ELSE IF Le(x, 2, 1) THEN IntV(0)
    ELSE IF Le(x, 3, 1) THEN IntV(1)
    ELSE IF Le(x, 5, 1) THEN IntV(2)
    ELSE IntV(3)

sev_plr(x) ==
    IF IsNone(x) THEN NoneV
    ELSE IF Lt(x, 120, 1) THEN IntV(0)
    ELSE IF Lt(x, 150, 1) THEN IntV(1)
    ELSE IF Lt(x, 200, 1) THEN IntV(2)
    ELSE IntV(3)

sev_sii(x) ==
    IF IsNone(x) THEN NoneV
    ELSE IF Lt(x, 300, 1) THEN IntV(0)
    ELSE IF Lt(x, 600, 1) THEN IntV(1)
    ELSE IF Lt(x, 900, 1) THEN IntV(2)
    ELSE IntV(3)

sev_siri(x) ==
    IF IsNone(x) THEN NoneV
    ELSE IF Lt(x, 8, 10) THEN IntV(0)
    ELSE IF Lt(x, 15, 10) THEN IntV(1)
    ELSE IF Lt(x, 25, 10) THEN IntV(2)
    ELSE IntV(3)

sev_aisi(x) ==
    IF IsNone(x) THEN NoneV
    ELSE IF Lt(x, 150, 1) THEN IntV(0)
    ELSE IF Lt(x, 300, 1) THEN IntV(1)
    ELSE IF Lt(x, 600, 1) THEN IntV(2)
    ELSE IntV(3)

sev_rdw(x) ==
    IF IsNone(x) THEN NoneV
    ELSE IF Lt(x, 13, 1) THEN IntV(0)
    ELSE IF Lt(x, 14, 1) THEN IntV(1)
    ELSE IF Lt(x, 15, 1) THEN IntV(2)
    ELSE IntV(3)

sev_rpr(x) ==
    IF IsNone(x) THEN NoneV
    ELSE IF Lt(x, 7, 100) THEN IntV(0)
    ELSE IF Lt(x, 10, 100) THEN IntV(1)
    ELSE IF Lt(x, 15, 100) THEN IntV(2)
    ELSE IntV(3)

sev_rar(x) ==
    IF IsNone(x) THEN NoneV
    ELSE IF Lt(x, 3, 1) THEN IntV(0)
    ELSE IF Lt(x, 4, 1) THEN IntV(1)
    ELSE IF Lt(x, 5, 1) THEN IntV(2)
    ELSE IntV(3)

sev_hbrdw(x) ==
    IF IsNone(x) THEN NoneV
    ELSE IF Ge(x, 135, 100) THEN IntV(0)
    ELSE IF Ge(x, 120, 100) THEN IntV(1)
    ELSE IF Ge(x, 100, 100) THEN IntV(2)
    ELSE IntV(3)

sev_mcvhb(x) ==
    IF IsNone(x) THEN NoneV
    ELSE IF Lt(x, 7, 1) THEN IntV(0)
    ELSE IF Lt(x, 8, 1) THEN IntV(1)
    ELSE IF Lt(x, 9, 1) THEN IntV(2)
    ELSE IntV(3)

sev_hpr(x) ==
    IF IsNone(x) THEN NoneV
    ELSE IF Lt(x, 7, 100) THEN IntV(0)
    ELSE IF Lt(x, 9, 100) THEN IntV(1)
    ELSE IF Lt(x, 12, 100) THEN IntV(2)
    ELSE IntV(3)

sev_mhr(x) ==
    IF IsNone(x) THEN NoneV
    ELSE IF Lt(x, 10, 1000) THEN IntV(0)
    ELSE IF Lt(x, 20, 1000) THEN IntV(1)
    ELSE IF Lt(x, 30, 1000) THEN IntV(2)
    ELSE IntV(3)

sev_nhr(x) ==
    IF IsNone(x) THEN NoneV
    ELSE IF Lt(x, 10, 100) THEN IntV(0)
    ELSE IF Lt(x, 20, 100) THEN IntV(1)
    ELSE IF Lt(x, 30, 100) THEN IntV(2)
    ELSE IntV(3)

sev_tyg(x) ==
    IF IsNone(x) THEN NoneV
    ELSE IF Lt(x, 85, 10) THEN IntV(0)
    ELSE IF Lt(x, 89, 10) THEN IntV(1)
    ELSE IF Lt(x, 95, 10) THEN IntV(2)
    ELSE IntV(3)

sev_mets(x) ==
    IF IsNone(x) THEN NoneV
    ELSE IF Lt(x, 35, 1) THEN IntV(0)
    ELSE IF Lt(x, 40, 1) THEN IntV(1)
    ELSE IF Lt(x, 45, 1) THEN IntV(2)
    ELSE IntV(3)

\* <0.11 low, 0.11-0.21 intermediate, >0.21 high (counted as severe)
sev_aip(x) ==
    IF IsNone(x) THEN NoneV
    ELSE IF Lt(x, 11, 100) THEN IntV(0)
    ELSE IF Le(x, 21, 100) THEN IntV(1)
    ELSE IntV(3)

sev_hsi(x) ==
    IF IsNone(x) THEN NoneV
    ELSE IF Lt(x, 30, 1) THEN IntV(0)
    ELSE IF Lt(x, 35, 1) THEN IntV(1)
    ELSE IF Lt(x, 40, 1) THEN IntV(2)
    ELSE IntV(3)

sev_fib4(x) ==
    IF IsNone(x) THEN NoneV
    ELSE IF Lt(x, 13, 10) THEN IntV(0)
    ELSE IF Lt(x, 20, 10) THEN IntV(1)
    ELSE IF Lt(x, 267, 100) THEN IntV(2)
    ELSE IntV(3)

\* the eGDR classifier with the ordinals in ascending-is-worse order
sev_egdr_Ascending(x) ==
    IF IsNone(x) THEN NoneV
    ELSE IF Gt(x, 8, 1) THEN IntV(3)
    ELSE IF Gt(x, 6, 1) THEN IntV(2)
    ELSE IF Gt(x, 4, 1) THEN IntV(1)
    ELSE IntV(0)

sev_egdr(x) ==
    IF IsNone(x) THEN NoneV
    ELSE IF Gt(x, 8, 1) THEN IntV(0)
    ELSE IF Gt(x, 6, 1) THEN IntV(1)
    ELSE IF Gt(x, 4, 1) THEN IntV(2)
    ELSE IntV(3)

---------------------------------------------------------------------------
(* The four blocks.  Each returns its dict, or raises the first exception   *)
(* met while computing its indices in source order.                         *)

\* the first exception value in a sequence of values, else None
RECURSIVE FirstError(_)
FirstError(s) ==
    IF s = <<>> THEN NoneV
    ELSE IF IsErr(Head(s)) THEN Head(s) ELSE FirstError(Tail(s))

Raised(e) == [state |-> "raised", exc |-> e.tag]

\* value of "v = None; if cond: v = expr" where cond may itself raise
Guarded(c, v) == IF c = "E" THEN TypeError ELSE IF c = "T" THEN v ELSE NoneV

calc_inflammation_block(neut, lymph, mono, plate) ==
    LET nlr == safe_div(neut, lymph)
        plr == safe_div(plate, lymph)
        sii == IF Truthy(lymph) THEN safe_div(PyMul(plate, neut), lymph) ELSE NoneV
        siri == IF Truthy(lymph) THEN safe_div(PyMul(neut, mono), lymph) ELSE NoneV
        aisi == IF ~IsNone(neut) /\ ~IsNone(lymph) /\ ~IsNone(mono)
                THEN PyMul(PyMul(neut, lymph), mono) ELSE NoneV
        e == FirstError(<<nlr, plr, sii, siri, aisi>>)
        s_nlr == sev_nlr(nlr)
        s_plr == sev_plr(plr)
        s_sii == sev_sii(sii)
        s_siri == sev_siri(siri)
        s_aisi == sev_aisi(aisi)
        severities == Present(<<s_nlr, s_plr, s_sii, s_siri, s_aisi>>)
        inflam_sev == AvgSeverity(severities)
    IN  IF IsErr(e) THEN Raised(e)
        ELSE [state |-> "returned",
              nlr |-> nlr, plr |-> plr, sii |-> sii, siri |-> siri, aisi |-> aisi,
              s_nlr |-> s_nlr, s_plr |-> s_plr, s_sii |-> s_sii,
              s_siri |-> s_siri, s_aisi |-> s_aisi,
              inflam_sev |-> inflam_sev,
              inflam_score |-> DomainScore(inflam_sev)]

calc_oxidative_block(rdw, plate, albumin, hb, mcv) ==
    LET rpr == safe_div(rdw, plate)
        rar == safe_div(rdw, albumin)
        hbrdw == safe_div(hb, rdw)
        mcvhb == safe_div(mcv, hb)
        hpr == safe_div(hb, plate)
        e == FirstError(<<rpr, rar, hbrdw, mcvhb, hpr>>)
        s_rdw == sev_rdw(rdw)
        s_rpr == sev_rpr(rpr)
        s_rar == sev_rar(rar)
        s_hbrdw == sev_hbrdw(hbrdw)
        s_mcvhb == sev_mcvhb(mcvhb)
        s_hpr == sev_hpr(hpr)
        severities == Present(<<s_rdw, s_rpr, s_rar, s_hbrdw, s_mcvhb, s_hpr>>)
        oxid_sev == AvgSeverity(severities)
    IN  IF IsErr(e) THEN Raised(e)
        ELSE [state |-> "returned",
              rdw |-> rdw, rpr |-> rpr, rar |-> rar, hbrdw |-> hbrdw,
              mcvhb |-> mcvhb, hpr |-> hpr,
              s_rdw |-> s_rdw, s_rpr |-> s_rpr, s_rar |-> s_rar,
              s_hbrdw |-> s_hbrdw, s_mcvhb |-> s_mcvhb, s_hpr |-> s_hpr,
              oxid_sev |-> oxid_sev,
              oxid_score |-> DomainScore(oxid_sev)]

calc_endothelial_block(mono, neut, hdl) ==
    LET mhr == safe_div(mono, hdl)
        nhr == safe_div(neut, hdl)
        e == FirstError(<<mhr, nhr>>)
        s_mhr == sev_mhr(mhr)
        s_nhr == sev_nhr(nhr)
        severities == Present(<<s_mhr, s_nhr>>)
        endo_sev == AvgSeverity(severities)
    IN  IF IsErr(e) THEN Raised(e)
        ELSE [state |-> "returned",
              mhr |-> mhr, nhr |-> nhr, s_mhr |-> s_mhr, s_nhr |-> s_nhr,
              endo_sev |-> endo_sev,
              endo_score |-> DomainScore(endo_sev)]

calc_metabolic_block(age, sex, diabetes, glu, tg, hdl, ast, alt, hba1c, waist, bmi, htn, plate) ==
    LET tyg == Guarded(AndThen(Gt0(glu), Gt0(tg)),
                       math_log(PyDiv(PyMul(glu, tg), IntV(2))))
        mets_ir == Guarded(AndThen(Gt0(glu), AndThen(Gt0(tg), AndThen(Gt0(hdl), Gt0(bmi)))),
                           PyDiv(PyMul(math_log(PyAdd(PyMul(IntV(2), glu), tg)), bmi),
                                 math_log(hdl)))
        tg_mmol == PyDiv(tg, Num(885, 10))
        hdl_mmol == PyDiv(hdl, Num(387, 10))
        aip == Guarded(AndThen(Gt0(tg), Gt0(hdl)),
                       Guarded(Gt0(hdl_mmol), math_log10(PyDiv(tg_mmol, hdl_mmol))))
        hsi0 == PyAdd(PyMul(IntV(8), PyDiv(alt, ast)), bmi)
        hsi1 == IF sex \in {"F", "f"} THEN PyAdd(hsi0, IntV(2)) ELSE hsi0
        hsi2 == IF diabetes = 1 THEN PyAdd(hsi1, IntV(2)) ELSE hsi1
        hsi == Guarded(Gt0(ast), hsi2)
        fib4 == Guarded(AndThen(Gt0(plate), Gt0(alt)),
                        PyDiv(PyMul(age, ast), PyMul(plate, math_sqrt(alt))))
        egdr == PySub(PySub(PySub(Num(21158, 1000), PyMul(Num(9, 100), waist)),
                            PyMul(Num(3407, 1000), IntV(IF htn THEN 1 ELSE 0))),
                      PyMul(Num(551, 1000), hba1c))
        e == FirstError(<<tyg, mets_ir, aip, hsi, fib4, egdr>>)
        s_tyg == sev_tyg(tyg)
        s_mets == sev_mets(mets_ir)
        s_aip == sev_aip(aip)
        s_hsi == sev_hsi(hsi)
        s_fib4 == sev_fib4(fib4)
        s_egdr == sev_egdr(egdr)
        severities == Present(<<s_tyg, s_mets, s_aip, s_hsi, s_fib4, s_egdr>>)
        metab_sev == AvgSeverity(severities)
    IN  IF IsErr(e) THEN Raised(e)
        ELSE [state |-> "returned",
              tyg |-> tyg, mets_ir |-> mets_ir, aip |-> aip, hsi |-> hsi,
              fib4 |-> fib4, egdr |-> egdr,
              s_tyg |-> s_tyg, s_mets |-> s_mets, s_aip |-> s_aip,
              s_hsi |-> s_hsi, s_fib4 |-> s_fib4, s_egdr |-> s_egdr,
              metab_sev |-> metab_sev,
              metab_score |-> DomainScore(metab_sev)]

\* domain_label(score)
domain_label(score) ==
    IF score < 6 THEN "Near optimal"
    ELSE IF score < 13 THEN "Mild"
    ELSE IF score < 19 THEN "Moderate"
    ELSE "Severe"

\* overall_risk_label with the two middle categories exchanged
overall_risk_label_Swapped(total_score) ==
    IF total_score < 25 THEN "Low risk"
    ELSE IF total_score < 40 THEN "Moderate risk"
    ELSE IF total_score < 60 THEN "Mild risk"
    ELSE "High risk - intensive optimization needed"

\* overall_risk_label(total_score)
overall_risk_label(total_score) ==
    IF total_score < 25 THEN "Low risk"
    ELSE IF total_score < 40 THEN "Mild risk"
    ELSE IF total_score < 60 THEN "Moderate risk"
    ELSE "High risk - intensive optimization needed"

---------------------------------------------------------------------------
(* Inputs.  The arguments of the blocks are numbers or None (every block    *)
(* tests "is None").  The inputs start as a reference patient; before the  *)
(* calculation is started, up to MaxDeviations fields are replaced, in     *)
(* field order, by one of the field's alternative values.                  *)

MaxDeviations == 3

FieldOrder ==
    <<"age", "sex", "diabetes", "neut", "lymph", "mono", "plate", "hb", "rdw",
      "mcv", "albumin", "glu", "tg", "hdl", "ast", "alt", "hba1c", "bmi",
      "waist", "htn">>

Fields == {FieldOrder[i] : i \in DOMAIN FieldOrder}

\* a patient whose every field is numeric and inside the form's ranges
Reference ==
    [age |-> IntV(40), sex |-> "M", diabetes |-> 0,
     neut |-> IntV(5), lymph |-> IntV(2), mono |-> IntV(1), plate |-> IntV(200),
     hb |-> IntV(13), rdw |-> IntV(13), mcv |-> IntV(96), albumin |-> IntV(4),
     glu |-> IntV(120), tg |-> IntV(200), hdl |-> IntV(33),
     ast |-> IntV(33), alt |-> IntV(40), hba1c |-> IntV(6), bmi |-> IntV(26),
     waist |-> IntV(88), htn |-> FALSE]

Alternatives(f) ==
    CASE f = "age" -> {NoneV}
      [] f = "sex" -> {"F"}
      [] f = "diabetes" -> {1}
      [] f = "neut" -> {NoneV, IntV(9)}
      [] f = "lymph" -> {NoneV, IntV(0), IntV(-1)}
      [] f = "mono" -> {NoneV}
      [] f = "plate" -> {NoneV, IntV(0)}
      [] f = "hb" -> {NoneV, IntV(0)}
      [] f = "rdw" -> {NoneV, IntV(15)}
      [] f = "mcv" -> {NoneV}
      [] f = "albumin" -> {NoneV, IntV(0)}
      [] f = "glu" -> {NoneV, IntV(0), IntV(90)}
      [] f = "tg" -> {NoneV, IntV(0), IntV(100)}
      [] f = "hdl" -> {NoneV, IntV(0), Num(1, 2), IntV(1), IntV(100)}
      [] f = "ast" -> {NoneV, IntV(0)}
      [] f = "alt" -> {NoneV, IntV(0)}
      [] f = "hba1c" -> {NoneV, IntV(8), IntV(10)}
      [] f = "bmi" -> {NoneV}
      [] f = "waist" -> {NoneV, IntV(100), IntV(120)}
      [] f = "htn" -> {TRUE}

\* the positions of the fields of q that differ from the reference patient
Deviating(q) == {i \in DOMAIN FieldOrder : q[FieldOrder[i]] # Reference[FieldOrder[i]]}

---------------------------------------------------------------------------
(* main: the "Calculate & Generate Report" branch *)

NotCalled == [state |-> "pending"]

NoProbe == [idx |-> "none", v1 |-> NoneV, v2 |-> NoneV, s1 |-> NoneV, s2 |-> NoneV]

\* the total with the endothelial score left out
TotalScore_NoEndo(i, o, e, m) == i + o + m

\* total_score = infl["inflam_score"] + oxid["oxid_score"] + endo["endo_score"] + metab["metab_score"]
TotalScore(i, o, e, m) == i + o + e + m

Init ==
    /\ p = Reference
    /\ pc = "form"
    /\ infl = NotCalled
    /\ oxid = NotCalled
    /\ endo = NotCalled
    /\ metab = NotCalled
    /\ report = NotCalled
    /\ probe = NoProbe

\* the inputs handed to the calculation: one more field replaced
ChooseInput ==
    /\ pc = "form"
    /\ Cardinality(Deviating(p)) < MaxDeviations
    /\ \E i \in DOMAIN FieldOrder :
          /\ \A j \in Deviating(p) : j < i
          /\ \E v \in Alternatives(FieldOrder[i]) : p' = [p EXCEPT ![FieldOrder[i]] = v]
    /\ UNCHANGED <<pc, infl, oxid, endo, metab, report, probe>>

\* if st.button("Calculate & Generate Report"):
\*     infl = calc_inflammation_block(neut, lymph, mono, plate)
CallInflammation ==
    /\ pc = "form"
    /\ infl' = calc_inflammation_block(p.neut, p.lymph, p.mono, p.plate)
    /\ pc' = IF infl'.state = "raised" THEN "raised" ELSE "oxidative"
    /\ UNCHANGED <<p, oxid, endo, metab, report, probe>>

\* oxid = calc_oxidative_block(rdw, plate, albumin, hb, mcv)
CallOxidative ==
    /\ pc = "oxidative"
    /\ oxid' = calc_oxidative_block(p.rdw, p.plate, p.albumin, p.hb, p.mcv)
    /\ pc' = IF oxid'.state = "raised" THEN "raised" ELSE "endothelial"
    /\ UNCHANGED <<p, infl, endo, metab, report, probe>>

\* endo = calc_endothelial_block(mono, neut, hdl)
CallEndothelial ==
    /\ pc = "endothelial"
    /\ endo' = calc_endothelial_block(p.mono, p.neut, p.hdl)
    /\ pc' = IF endo'.state = "raised" THEN "raised" ELSE "metabolic"
    /\ UNCHANGED <<p, infl, oxid, metab, report, probe>>

\* metab = calc_metabolic_block(age, sex, diabetes, glu, tg, hdl, ast, alt, hba1c, waist, bmi, htn, plate)
CallMetabolic ==
    /\ pc = "metabolic"
    /\ metab' = calc_metabolic_block(p.age, p.sex, p.diabetes, p.glu, p.tg, p.hdl,
                                     p.ast, p.alt, p.hba1c, p.waist, p.bmi, p.htn, p.plate)
    /\ pc' = IF metab'.state = "raised" THEN "raised" ELSE "synthesis"
    /\ UNCHANGED <<p, infl, oxid, endo, report, probe>>

\* severity_to_text with the direction argument ignored: every index is
\* rendered as higher-is-worse
severity_to_text_NoDirection(sev, direction) ==
    IF IsNone(sev) THEN "NA"
    ELSE
        CASE sev.n = 0 -> "Normal" [] sev.n = 1 -> "Mild  up"
          [] sev.n = 2 -> "Moderate  up" [] sev.n = 3 -> "Severe  up"
          [] OTHER -> "NA"

\* severity_to_text(sev, direction): the arrows U+2191 and U+2193 are written
\* " up" and " down", as pdf_safe renders them on the page
severity_to_text(sev, direction) ==
    IF IsNone(sev) THEN "NA"
    ELSE IF direction = "down" THEN
        CASE sev.n = 0 -> "Normal" [] sev.n = 1 -> "Mild  down"
          [] sev.n = 2 -> "Moderate  down" [] sev.n = 3 -> "Severe  down"
          [] OTHER -> "NA"
    ELSE
        CASE sev.n = 0 -> "Normal" [] sev.n = 1 -> "Mild  up"
          [] sev.n = 2 -> "Moderate  up" [] sev.n = 3 -> "Severe  up"
          [] OTHER -> "NA"

\* if v is not None: key_indices.append(f"name: {v} ({severity_to_text(s)})");
\* the entry keeps the number handed to the format and the severity text
KeyIndex(name, v, s, direction) ==
    IF IsNone(v) THEN <<>>
    ELSE <<[name |-> name, value |-> v, text |-> severity_to_text(s, direction)]>>

\* key_indices, as built for the PDF
KeyIndices(i, o, e, m) ==
    KeyIndex("NLR", i.nlr, i.s_nlr, "up")
    \o KeyIndex("PLR", i.plr, i.s_plr, "up")
    \o KeyIndex("SII", i.sii, i.s_sii, "up")
    \o KeyIndex("SIRI", i.siri, i.s_siri, "up")
    \o KeyIndex("RDW", o.rdw, o.s_rdw, "up")
    \o KeyIndex("RPR (RDW/Platelets)", o.rpr, o.s_rpr, "up")
    \o KeyIndex("RAR (RDW/Albumin)", o.rar, o.s_rar, "up")
    \o KeyIndex("Hb/RDW", o.hbrdw, o.s_hbrdw, "up")
    \o KeyIndex("MHR", e.mhr, e.s_mhr, "up")
    \o KeyIndex("NHR", e.nhr, e.s_nhr, "up")
    \o KeyIndex("TyG", m.tyg, m.s_tyg, "up")
    \o KeyIndex("METS-IR", m.mets_ir, m.s_mets, "up")
    \o KeyIndex("AIP (mmol/L)", m.aip, m.s_aip, "up")
    \o KeyIndex("HSI", m.hsi, m.s_hsi, "up")
    \o KeyIndex("FIB-4", m.fib4, m.s_fib4, "up")
    \o KeyIndex("eGDR", m.egdr, m.s_egdr, "down")

inflam_comment_map ==
    ("Near optimal" :> "No significant systemic inflammation on CBC-derived indices.")
    @@ ("Mild" :> "Mild elevation in inflammatory markers; consider lifestyle optimization and monitoring.")
    @@ ("Moderate" :> "Moderate systemic inflammation; evaluate for chronic inflammatory or metabolic drivers.")
    @@ ("Severe" :> "Marked systemic inflammation; consider detailed workup and aggressive risk modification.")

oxid_comment_map ==
    ("Near optimal" :> "No major signal of oxidative or hematologic stress.")
    @@ ("Mild" :> "Mild signal of oxidative or hematologic stress; correlate with fatigue, B12/folate, and nutrition.")
    @@ ("Moderate" :> "Moderate oxidative or energy stress; consider micronutrient and mitochondrial support.")
    @@ ("Severe" :> "Severe hematologic or oxidative stress pattern; rule out deficiency, chronic disease, or marrow stress.")

endo_comment_map ==
    ("Near optimal" :> "Endothelial markers appear within healthy range.")
    @@ ("Mild" :> "Mild endothelial stress; consider vascular health strategies (blood pressure, lipids, activity, diet).")
    @@ ("Moderate" :> "Moderate endothelial dysfunction; intensify vascular risk management.")
    @@ ("Severe" :> "Severe endothelial stress; evaluate for advanced atherosclerotic risk and organ damage.")

metab_comment_map ==
    ("Near optimal" :> "Metabolic, liver, and insulin-resistance markers are largely reassuring.")
    @@ ("Mild" :> "Mild metabolic risk; reinforce diet, activity, weight management, and sleep.")
    @@ ("Moderate" :> "Moderate metabolic and insulin-resistance burden; structured lifestyle and pharmacologic review advised.")
    @@ ("Severe" :> "Severe metabolic risk; high priority for comprehensive diabetes, NAFLD, and cardiovascular risk management.")

\* a dict lookup with a missing key
KeyError == [tag |-> "KeyError", n |-> 0, d |-> 1]

\* total score, overall label, the four domain labels and their comments
\* (a label missing from its comment map raises KeyError), and key_indices
Synthesize ==
    /\ pc = "synthesis"
    /\ LET total_score == TotalScore(infl.inflam_score, oxid.oxid_score,
                                     endo.endo_score, metab.metab_score)
           inflam_label == domain_label(infl.inflam_score)
           oxid_label == domain_label(oxid.oxid_score)
           endo_label == domain_label(endo.endo_score)
           metab_label == domain_label(metab.metab_score)
       IN  IF /\ inflam_label \in DOMAIN inflam_comment_map
              /\ oxid_label \in DOMAIN oxid_comment_map
              /\ endo_label \in DOMAIN endo_comment_map
              /\ metab_label \in DOMAIN metab_comment_map
           THEN /\ report' = [state |-> "returned",
                              total_score |-> total_score,
                              risk_label |-> overall_risk_label(total_score),
                              inflam_label |-> inflam_label,
                              oxid_label |-> oxid_label,
                              endo_label |-> endo_label,
                              metab_label |-> metab_label,
                              inflam_comment |-> inflam_comment_map[inflam_label],
                              oxid_comment |-> oxid_comment_map[oxid_label],
                              endo_comment |-> endo_comment_map[endo_label],
                              metab_comment |-> metab_comment_map[metab_label],
                              key_indices |-> KeyIndices(infl, oxid, endo, metab)]
                /\ pc' = "report"
           ELSE /\ report' = Raised(KeyError)
                /\ pc' = "raised"
    /\ UNCHANGED <<p, infl, oxid, endo, metab, probe>>

Next ==
    \/ ChooseInput
    \/ CallInflammation
    \/ CallOxidative
    \/ CallEndothelial
    \/ CallMetabolic
    \/ Synthesize

Spec == Init /\ [][Next]_vars

---------------------------------------------------------------------------
(* The severity classifiers on their own: one index, two values *)

Indices ==
    {"nlr", "plr", "sii", "siri", "aisi", "rdw", "rpr", "rar", "hbrdw", "mcvhb",
     "hpr", "mhr", "nhr", "tyg", "mets_ir", "aip", "hsi", "fib4", "egdr"}

\* the classifier that each block applies to each of its indices
Sev(idx, x) ==
    CASE idx = "nlr" -> sev_nlr(x)
      [] idx = "plr" -> sev_plr(x)
      [] idx = "sii" -> sev_sii(x)
      [] idx = "siri" -> sev_siri(x)
      [] idx = "aisi" -> sev_aisi(x)
      [] idx = "rdw" -> sev_rdw(x)
      [] idx = "rpr" -> sev_rpr(x)
      [] idx = "rar" -> sev_rar(x)
      [] idx = "hbrdw" -> sev_hbrdw(x)
      [] idx = "mcvhb" -> sev_mcvhb(x)
      [] idx = "hpr" -> sev_hpr(x)
      [] idx = "mhr" -> sev_mhr(x)
      [] idx = "nhr" -> sev_nhr(x)
      [] idx = "tyg" -> sev_tyg(x)
      [] idx = "mets_ir" -> sev_mets(x)
      [] idx = "aip" -> sev_aip(x)
      [] idx = "hsi" -> sev_hsi(x)
      [] idx = "fib4" -> sev_fib4(x)
      [] idx = "egdr" -> sev_egdr(x)

\* the cutoffs written in each classifier, in source order, as <<n, d>> = n/d
Cutoffs(idx) ==
    CASE idx = "nlr" -> <<(<<2, 1>>), (<<3, 1>>), (<<5, 1>>)>>
      [] idx = "plr" -> <<(<<120, 1>>), (<<150, 1>>), (<<200, 1>>)>>
      [] idx = "sii" -> <<(<<300, 1>>), (<<600, 1>>), (<<900, 1>>)>>
      [] idx = "siri" -> <<(<<8, 10>>), (<<15, 10>>), (<<25, 10>>)>>
      [] idx = "aisi" -> <<(<<150, 1>>), (<<300, 1>>), (<<600, 1>>)>>
      [] idx = "rdw" -> <<(<<13, 1>>), (<<14, 1>>), (<<15, 1>>)>>
      [] idx = "rpr" -> <<(<<7, 100>>), (<<10, 100>>), (<<15, 100>>)>>
      [] idx = "rar" -> <<(<<3, 1>>), (<<4, 1>>), (<<5, 1>>)>>
      [] idx = "hbrdw" -> <<(<<135, 100>>), (<<120, 100>>), (<<100, 100>>)>>
      [] idx = "mcvhb" -> <<(<<7, 1>>), (<<8, 1>>), (<<9, 1>>)>>
      [] idx = "hpr" -> <<(<<7, 100>>), (<<9, 100>>), (<<12, 100>>)>>
      [] idx = "mhr" -> <<(<<10, 1000>>), (<<20, 1000>>), (<<30, 1000>>)>>
      [] idx = "nhr" -> <<(<<10, 100>>), (<<20, 100>>), (<<30, 100>>)>>
      [] idx = "tyg" -> <<(<<85, 10>>), (<<89, 10>>), (<<95, 10>>)>>
      [] idx = "mets_ir" -> <<(<<35, 1>>), (<<40, 1>>), (<<45, 1>>)>>
      [] idx = "aip" -> <<(<<11, 100>>), (<<21, 100>>)>>
      [] idx = "hsi" -> <<(<<30, 1>>), (<<35, 1>>), (<<40, 1>>)>>
      [] idx = "fib4" -> <<(<<13, 10>>), (<<20, 10>>), (<<267, 100>>)>>
      [] idx = "egdr" -> <<(<<8, 1>>), (<<6, 1>>), (<<4, 1>>)>>

\* the ordinals each classifier returns, band by band, in source order
Bands(idx) == IF idx = "aip" THEN <<0, 1, 3>> ELSE <<0, 1, 2, 3>>

\* the indices whose classifier treats a lower value as worse
LowerIsWorse == {"hbrdw", "egdr"}

\* how far around each cutoff, in thousandths, the classifiers are probed
ProbeSteps == 1

ProbeValues(idx) ==
    {Num(Cutoffs(idx)[i][1] * 1000 + k * Cutoffs(idx)[i][2], Cutoffs(idx)[i][2] * 1000) :
        i \in DOMAIN Cutoffs(idx), k \in (0 - ProbeSteps)..ProbeSteps}

\* s1 = sev_xxx(v1); s2 = sev_xxx(v2)
ClassifyPair ==
    /\ pc = "form"
    /\ probe = NoProbe
    /\ \E idx \in Indices :
         \E v1 \in ProbeValues(idx), v2 \in ProbeValues(idx) :
            probe' = [idx |-> idx, v1 |-> v1, v2 |-> v2,
                      s1 |-> Sev(idx, v1), s2 |-> Sev(idx, v2)]
    /\ UNCHANGED <<p, pc, infl, oxid, endo, metab, report>>

NextSev == ClassifyPair

SpecSev == Init /\ [][NextSev]_vars

---------------------------------------------------------------------------
(* overall_risk_label on its own: the function is applied to two totals of *)
(* the 0-100 scale, so that its order can be examined.                     *)

\* "0-100 total score": four domain scores of 0..25 each
RiskTotals == 0..100

\* l1 = overall_risk_label(t1); l2 = overall_risk_label(t2)
ClassifyRisk ==
    /\ pc = "form"
    /\ probe = NoProbe
    /\ \E t1 \in RiskTotals, t2 \in RiskTotals :
          probe' = [idx |-> "risk", v1 |-> IntV(t1), v2 |-> IntV(t2),
                    s1 |-> overall_risk_label(t1), s2 |-> overall_risk_label(t2)]
    /\ UNCHANGED <<p, pc, infl, oxid, endo, metab, report>>

NextRisk == ClassifyRisk

SpecRisk == Init /\ [][NextRisk]_vars

---------------------------------------------------------------------------
(* Vocabulary of the properties *)

Domains == {"infl", "oxid", "endo", "metab"}

BlockOf(dn) ==
    CASE dn = "infl" -> infl [] dn = "oxid" -> oxid
      [] dn = "endo" -> endo [] dn = "metab" -> metab

Returned(dn) == BlockOf(dn).state = "returned"

Called(dn) == BlockOf(dn).state # "pending"

Members(dn) ==
    CASE dn = "infl" -> <<"nlr", "plr", "sii", "siri", "aisi">>
      [] dn = "oxid" -> <<"rdw", "rpr", "rar", "hbrdw", "mcvhb", "hpr">>
      [] dn = "endo" -> <<"mhr", "nhr">>
      [] dn = "metab" -> <<"tyg", "mets_ir", "aip", "hsi", "fib4", "egdr">>

DomainOf(idx) == CHOOSE dn \in Domains : \E i \in DOMAIN Members(dn) : Members(dn)[i] = idx

\* the key under which a block returns the severity of an index
SevKey(idx) ==
    CASE idx = "nlr" -> "s_nlr" [] idx = "plr" -> "s_plr" [] idx = "sii" -> "s_sii"
      [] idx = "siri" -> "s_siri" [] idx = "aisi" -> "s_aisi" [] idx = "rdw" -> "s_rdw"
      [] idx = "rpr" -> "s_rpr" [] idx = "rar" -> "s_rar" [] idx = "hbrdw" -> "s_hbrdw"
      [] idx = "mcvhb" -> "s_mcvhb" [] idx = "hpr" -> "s_hpr" [] idx = "mhr" -> "s_mhr"
      [] idx = "nhr" -> "s_nhr" [] idx = "tyg" -> "s_tyg" [] idx = "mets_ir" -> "s_mets"
      [] idx = "aip" -> "s_aip" [] idx = "hsi" -> "s_hsi" [] idx = "fib4" -> "s_fib4"
      [] idx = "egdr" -> "s_egdr"

\* value and severity of an index in the dict its block returned
ValueOf(idx) == BlockOf(DomainOf(idx))[idx]

SeverityOf(idx) == BlockOf(DomainOf(idx))[SevKey(idx)]

ScoreOf(dn) ==
    CASE dn = "infl" -> infl.inflam_score [] dn = "oxid" -> oxid.oxid_score
      [] dn = "endo" -> endo.endo_score [] dn = "metab" -> metab.metab_score

LabelOf(dn) ==
    CASE dn = "infl" -> report.inflam_label [] dn = "oxid" -> report.oxid_label
      [] dn = "endo" -> report.endo_label [] dn = "metab" -> report.metab_label

\* the members of a returned domain whose value is present
PresentMembers(dn) == {i \in DOMAIN Members(dn) : ~IsNone(ValueOf(Members(dn)[i]))}

\* sum of the severities of the members in the set I of positions
RECURSIVE SevSum(_, _)
SevSum(dn, I) ==
    IF I = {} THEN 0
    ELSE LET i == CHOOSE j \in I : TRUE
         IN  SeverityOf(Members(dn)[i]).n + SevSum(dn, I \ {i})

\* the inputs the formula of an index reads
Requires(idx) ==
    CASE idx = "nlr" -> {"neut", "lymph"}
      [] idx = "plr" -> {"plate", "lymph"}
      [] idx = "sii" -> {"plate", "neut", "lymph"}
      [] idx = "siri" -> {"neut", "mono", "lymph"}
      [] idx = "aisi" -> {"neut", "lymph", "mono"}
      [] idx = "rdw" -> {"rdw"}
      [] idx = "rpr" -> {"rdw", "plate"}
      [] idx = "rar" -> {"rdw", "albumin"}
      [] idx = "hbrdw" -> {"hb", "rdw"}
      [] idx = "mcvhb" -> {"mcv", "hb"}
      [] idx = "hpr" -> {"hb", "plate"}
      [] idx = "mhr" -> {"mono", "hdl"}
      [] idx = "nhr" -> {"neut", "hdl"}
      [] idx = "tyg" -> {"glu", "tg"}
      [] idx = "mets_ir" -> {"glu", "tg", "hdl", "bmi"}
      [] idx = "aip" -> {"tg", "hdl"}
      [] idx = "hsi" -> {"alt", "ast", "bmi"}
      [] idx = "fib4" -> {"age", "ast", "plate", "alt"}
      [] idx = "egdr" -> {"waist", "hba1c"}

\* the ratio indices and the inputs their denominators are made of
RatioIndices ==
    {"nlr", "plr", "sii", "siri", "rpr", "rar", "hbrdw", "mcvhb", "hpr", "mhr",
     "nhr", "hsi", "fib4"}

Denominator(idx) ==
    CASE idx \in {"nlr", "plr", "sii", "siri"} -> {"lymph"}
      [] idx \in {"rpr", "hpr"} -> {"plate"}
      [] idx = "rar" -> {"albumin"}
      [] idx = "hbrdw" -> {"rdw"}
      [] idx = "mcvhb" -> {"hb"}
      [] idx \in {"mhr", "nhr"} -> {"hdl"}
      [] idx = "hsi" -> {"ast"}
      [] idx = "fib4" -> {"plate", "alt"}

NumericFields == Fields \ {"sex", "diabetes", "htn"}

Absent(f) == IsNone(p[f])

NonPositive(f) == IsNone(p[f]) \/ p[f].n <= 0

\* every numeric input other than those in F is a number
OthersNumeric(F) == \A f \in NumericFields \ F : ~Absent(f)

---------------------------------------------------------------------------
(* Properties *)

\* C1: in a finished report, a domain none of whose member indices is present
\* has score 0 and label "NA"
C1_AbsentDomainIsNA ==
    pc = "report" =>
        \A dn \in Domains :
            PresentMembers(dn) = {} => ScoreOf(dn) = 0 /\ LabelOf(dn) = "NA"

\* C2: whatever inputs are absent, the calculation never raises
C2_NeverRaises == pc # "raised"

\* C3: once the block of an index has been called with one of the inputs of the
\* index absent, the block has returned, the index and its severity are None,
\* and the domain score is the one computed from the other present members
C3_AbsencePropagates ==
    \A idx \in Indices :
        (Called(DomainOf(idx)) /\ \E f \in Requires(idx) : Absent(f)) =>
            /\ Returned(DomainOf(idx))
            /\ IsNone(ValueOf(idx))
            /\ IsNone(SeverityOf(idx))
            /\ LET dn == DomainOf(idx)
                   I == PresentMembers(dn)
               IN  ScoreOf(dn) = IF I = {} THEN 0
                                 ELSE RoundHalfEven(25 * SevSum(dn, I), 3 * Cardinality(I))

\* C4: the score a block returns is between 0 and 25
C4_DomainScoreInRange ==
    \A dn \in Domains : Returned(dn) => ScoreOf(dn) >= 0 /\ ScoreOf(dn) <= 25

C4_Witness ==
    /\ \E dn \in Domains : Returned(dn) /\ ScoreOf(dn) = 25
    /\ \E dn \in Domains :
          /\ Returned(dn)
          /\ PresentMembers(dn) # {}
          /\ Cardinality(PresentMembers(dn)) < Len(Members(dn))
          /\ ScoreOf(dn) > 0

\* C5: the total of a finished report is the sum of the four domain scores, a
\* domain without present members adding 0; it is between 0 and 100, and the
\* risk category is the one of that total
C5_TotalIsSumOfDomains ==
    pc = "report" =>
        /\ report.total_score =
              ScoreOf("infl") + ScoreOf("oxid") + ScoreOf("endo") + ScoreOf("metab")
        /\ \A dn \in Domains : PresentMembers(dn) = {} => ScoreOf(dn) = 0
        /\ report.total_score >= 0 /\ report.total_score <= 100
        /\ report.risk_label = overall_risk_label(report.total_score)

C5_Witness ==
    /\ pc = "report"
    /\ \E dn \in Domains : PresentMembers(dn) = {}
    /\ \A dn \in Domains : PresentMembers(dn) # {} => ScoreOf(dn) > 0

\* C6: once the block of a ratio index has been called with a denominator input
\* that is None, zero or negative (every other input a number), the block has
\* returned and the index is None
C6_NonPositiveDenominatorAbsent ==
    \A idx \in RatioIndices : \A f \in Denominator(idx) :
        (Called(DomainOf(idx)) /\ NonPositive(f) /\ OthersNumeric({f})) =>
            Returned(DomainOf(idx)) /\ IsNone(ValueOf(idx))

\* C7: once the metabolic block has been called with a numeric HDL <= 1 (every
\* other input a number), it has returned and METS-IR is None
C7_MetsIrAbsentForLowHdl ==
    (Called("metab") /\ OthersNumeric({}) /\ p.hdl.n <= p.hdl.d) =>
        Returned("metab") /\ IsNone(metab.mets_ir)

\* the band of the first cutoff that is >= v, else the last band
InclusiveBand(idx, v) ==
    LET c == Cutoffs(idx)
        I == {i \in DOMAIN c : Le(v, c[i][1], c[i][2])}
    IN  IF I = {} THEN Bands(idx)[Len(c) + 1]
        ELSE Bands(idx)[CHOOSE i \in I : \A j \in I : i <= j]

\* C8: the severity of every present higher-is-worse index is the band of the
\* first cutoff that is >= its value
C8_InclusiveUpperBounds ==
    \A idx \in Indices \ LowerIsWorse :
        (Returned(DomainOf(idx)) /\ ~IsNone(ValueOf(idx))) =>
            SeverityOf(idx).n = InclusiveBand(idx, ValueOf(idx))

\* v1 <= v2 for two numbers
LeVal(v1, v2) == v1.n * v2.d <= v2.n * v1.d

\* C9: a classified value gets a severity in 0..3, and of two values of one
\* index the larger gets the higher-or-equal severity (the lower-or-equal one
\* for Hb/RDW and eGDR)
C9_SeverityMonotone ==
    probe.idx # "none" =>
        /\ probe.s1.tag = "num" /\ probe.s1.d = 1 /\ probe.s1.n \in 0..3
        /\ probe.s2.tag = "num" /\ probe.s2.d = 1 /\ probe.s2.n \in 0..3
        /\ LeVal(probe.v1, probe.v2) =>
              IF probe.idx \in LowerIsWorse THEN probe.s1.n >= probe.s2.n
              ELSE probe.s1.n <= probe.s2.n

C9_Witness ==
    /\ probe.idx \in LowerIsWorse
    /\ LeVal(probe.v1, probe.v2)
    /\ probe.s1.n = 3
    /\ probe.s2.n = 0

\* C10: the score of a returned domain with present members is
\* sum(ordinals) / (presentCount * 3) * 25 to one decimal place, i.e. within
\* 0.05 of the exact quotient
C10_ScoreOneDecimal ==
    \A dn \in Domains :
        (Returned(dn) /\ PresentMembers(dn) # {}) =>
            LET I == PresentMembers(dn)
                cnt == Cardinality(I)
            IN  2 * Abs(10 * ScoreOf(dn) * 3 * cnt - 250 * SevSum(dn, I)) <= 3 * cnt

\* ---------------------------------------------------------------------
\* The per-index listing of the report (blocks["key_indices"])

\* the entries of the listing under a given name
KeyEntries(name) ==
    IF report.state = "returned"
    THEN {k \in 1..Len(report.key_indices) : report.key_indices[k].name = name}
    ELSE {}

\* C11: eGDR = 21.158 - 0.09*waist - 3.407*(1 if htn else 0) - 0.551*HbA1c;
\* every eGDR in (4.0, 6.0] has severity ordinal 2 and is listed as
\* "Moderate" with the downward (lower-is-worse) arrow; waist = 100,
\* hypertensive, HbA1c = 8 gives 4.343, inside the band, ordinal 2.
C11_EgdrFormulaAndBand ==
    Returned("metab") =>
        LET w == p.waist
            a == p.hba1c
            h == IF p.htn THEN 1 ELSE 0
            x == metab.egdr
        IN  /\ x = Num(21158 * w.d * a.d - 90 * w.n * a.d
                           - 3407 * h * w.d * a.d - 551 * a.n * w.d,
                       1000 * w.d * a.d)
            /\ (Gt(x, 4, 1) /\ Le(x, 6, 1)) =>
                   /\ metab.s_egdr = IntV(2)
                   /\ pc = "report" =>
                          /\ Cardinality(KeyEntries("eGDR")) = 1
                          /\ \A k \in KeyEntries("eGDR") :
                                 report.key_indices[k].text = "Moderate  down"
            /\ (w = IntV(100) /\ p.htn /\ a = IntV(8)) =>
                   /\ x = Num(4343, 1000)
                   /\ metab.s_egdr = IntV(2)

\* the example patient's report has been produced, eGDR inside the band
C11_Witness ==
    /\ pc = "report"
    /\ p.waist = IntV(100) /\ p.htn /\ p.hba1c = IntV(8)
    /\ Gt(metab.egdr, 4, 1) /\ Le(metab.egdr, 6, 1)
    /\ metab.s_egdr = IntV(2)
    /\ \E k \in KeyEntries("eGDR") : report.key_indices[k].text = "Moderate  down"

\* the name under which key_indices lists an index; no statement of the
\* listing names AISI, MCV/Hb or HPR
ListingName(idx) ==
    CASE idx = "nlr" -> "NLR"
      [] idx = "plr" -> "PLR"
      [] idx = "sii" -> "SII"
      [] idx = "siri" -> "SIRI"
      [] idx = "aisi" -> "AISI"
      [] idx = "rdw" -> "RDW"
      [] idx = "rpr" -> "RPR (RDW/Platelets)"
      [] idx = "rar" -> "RAR (RDW/Albumin)"
      [] idx = "hbrdw" -> "Hb/RDW"
      [] idx = "mcvhb" -> "MCV/Hb"
      [] idx = "hpr" -> "HPR"
      [] idx = "mhr" -> "MHR"
      [] idx = "nhr" -> "NHR"
      [] idx = "tyg" -> "TyG"
      [] idx = "mets_ir" -> "METS-IR"
      [] idx = "aip" -> "AIP (mmol/L)"
      [] idx = "hsi" -> "HSI"
      [] idx = "fib4" -> "FIB-4"
      [] idx = "egdr" -> "eGDR"

\* C12: the report's per-index listing has one entry for every derived
\* index of every domain (AISI, MCV/Hb and HPR included), and an absent
\* index is listed as "NA" rather than omitted.
C12_ListingComplete ==
    pc = "report" =>
        \A idx \in Indices :
            /\ Cardinality(KeyEntries(ListingName(idx))) = 1
            /\ IsNone(ValueOf(idx)) =>
                   \A k \in KeyEntries(ListingName(idx)) :
                       report.key_indices[k].text = "NA"

\* C14: for the Atherogenic Index of Plasma the intermediate band
\* 0.11..0.21 yields severity ordinal 2 and a value above 0.21 yields
\* ordinal 3.
C14_AipIntermediateIsTwo ==
    (Returned("metab") /\ ~IsNone(metab.aip)) =>
        /\ (Ge(metab.aip, 11, 100) /\ Le(metab.aip, 21, 100)) => metab.s_aip = IntV(2)
        /\ Gt(metab.aip, 21, 100) => metab.s_aip = IntV(3)

\* ---------------------------------------------------------------------
\* The overall risk category

\* the categories of overall_risk_label, in the order of its thresholds
RiskCategories ==
    <<"Low risk", "Mild risk", "Moderate risk",
      "High risk - intensive optimization needed">>

RiskRank(label) == CHOOSE k \in DOMAIN RiskCategories : RiskCategories[k] = label

\* C15: overall_risk_label maps every total of 0..100 to exactly one of
\* four ordered categories; the category is non-decreasing in the total,
\* total 0 has the lowest category and total 100 the highest.
C15_RiskLabelMonotone ==
    probe.idx = "risk" =>
        /\ \E k \in DOMAIN RiskCategories : probe.s1 = RiskCategories[k]
        /\ \E k \in DOMAIN RiskCategories : probe.s2 = RiskCategories[k]
        /\ probe.v1.n <= probe.v2.n => RiskRank(probe.s1) <= RiskRank(probe.s2)
        /\ probe.v1.n = 0 => probe.s1 = RiskCategories[1]
        /\ probe.v1.n = 100 => probe.s1 = RiskCategories[Len(RiskCategories)]

\* two adjacent totals on either side of a threshold, in different adjacent
\* categories
C15_Witness ==
    /\ probe.idx = "risk"
    /\ probe.v1.n = 39 /\ probe.v2.n = 40
    /\ RiskRank(probe.s1) = 2 /\ RiskRank(probe.s2) = 3

\* ---------------------------------------------------------------------
\* Inputs as the form delivers them

\* st.number_input(label, min, max, default): the range of each field
FormRange ==
    [age |-> <<0, 120>>, neut |-> <<0, 30>>, lymph |-> <<0, 30>>,
     mono |-> <<0, 5>>, plate |-> <<0, 1000>>, hb |-> <<0, 25>>,
     rdw |-> <<0, 30>>, mcv |-> <<0, 140>>, glu |-> <<0, 600>>,
     tg |-> <<0, 2000>>, hdl |-> <<0, 200>>, albumin |-> <<0, 6>>,
     ast |-> <<0, 500>>, alt |-> <<0, 500>>, hba1c |-> <<0, 20>>,
     bmi |-> <<10, 60>>, waist |-> <<40, 200>>]

\* every numeric field is a number inside its range
InFormRange ==
    \A f \in NumericFields :
        /\ ~Absent(f)
        /\ Ge(p[f], FormRange[f][1], 1)
        /\ Le(p[f], FormRange[f][2], 1)

\* C16: for every fully numeric input within the form's ranges, the
\* Inflammation, Oxidative and Metabolic blocks return with at least one
\* present member, the Endothelial block returns with no present member
\* exactly when HDL = 0, and the handler ends with every domain label found
\* in its comment map.
C16_OnlyEndothelialCanBeEmpty ==
    InFormRange =>
        /\ \A dn \in {"infl", "oxid", "metab"} :
               Called(dn) => (Returned(dn) /\ PresentMembers(dn) # {})
        /\ Called("endo") =>
               /\ Returned("endo")
               /\ PresentMembers("endo") = {} <=> p.hdl = IntV(0)
        /\ pc \in {"report", "raised"} =>
               /\ report.state = "returned"
               /\ report.inflam_label \in DOMAIN inflam_comment_map
               /\ report.oxid_label \in DOMAIN oxid_comment_map
               /\ report.endo_label \in DOMAIN endo_comment_map
               /\ report.metab_label \in DOMAIN metab_comment_map

====
